---- MODULE Spec2Model ----
(***************************************************************************)
(* Model of pkg/controller/volume/selinuxwarning/translator:               *)
(* ControllerSELinuxTranslator.SELinuxOptionsToFileLabel and .Conflicts.   *)
(*                                                                         *)
(* A Go string is a sequence of one-character strings, "" is << >>.        *)
(* A *v1.SELinuxOptions is a sequence of length 0 (nil) or 1 (a pointer to *)
(* the record it holds).                                                   *)
(***************************************************************************)
EXTENDS Integers, Sequences, FiniteSets, TLC

VARIABLES optsA, optsB, labelA, labelB, partsA, partsB, conflict, panicked, pc

vars == <<optsA, optsB, labelA, labelB, partsA, partsB, conflict, panicked, pc>>

\* ---------------------------------------------------------------- bounds
MaxLen == 6         \* longest label handed to Conflicts directly
MaxFieldLen == 2    \* longest field of a record
MaxLevelLen == 1    \* longest Level of a record when two records are compared

\* ------------------------------------------------------------ input sets
Colon == ":"
Letters == {"a"}
Chars == Letters \cup {Colon}

StringsOver(alphabet, n) == UNION {[1..k -> alphabet] : k \in 0..n}

Nil == << >>
EmptyString == << >>

\* ------------------------------------------------------- library helpers
\* strings.Index for a one-character separator, 1-based, 0 when absent
Index(s, sep) ==
  IF \E k \in 1..Len(s) : s[k] = sep
  THEN CHOOSE k \in 1..Len(s) : s[k] = sep /\ \A j \in 1..(k - 1) : s[j] # sep
  ELSE 0

\* strings.Count for a one-character separator
Count(s, sep) == Cardinality({k \in 1..Len(s) : s[k] = sep})

\* every sep-delimited field of s, however many there are
RECURSIVE AllFields(_, _)
AllFields(s, sep) ==
  LET m == Index(s, sep)
  IN IF m = 0 THEN <<s>>
     ELSE <<SubSeq(s, 1, m - 1)>> \o AllFields(SubSeq(s, m + 1, Len(s)), sep)

\* a split that ignores the maximum count
SplitNUnlimited(s, sep, n) == AllFields(s, sep)

\* a split that drops what follows the n-th field
SplitNTruncating(s, sep, n) ==
  LET all == AllFields(s, sep)
  IN IF Len(all) > n THEN SubSeq(all, 1, n) ELSE all

\* strings.SplitN(s, sep, n) for n >= 0: at most n substrings, the last one
\* being the unsplit remainder
RECURSIVE SplitN(_, _, _)
SplitN(s, sep, n) ==
  IF n = 0 THEN << >>
  ELSE IF n = 1 THEN <<s>>
  ELSE LET m == Index(s, sep)
       IN IF m = 0 THEN <<s>>
          ELSE <<SubSeq(s, 1, m - 1)>> \o SplitN(SubSeq(s, m + 1, Len(s)), sep, n - 1)

\* strings.Join(parts, sep)
RECURSIVE Join(_, _)
Join(parts, sep) ==
  IF Len(parts) = 0 THEN EmptyString
  ELSE IF Len(parts) = 1 THEN parts[1]
  ELSE parts[1] \o <<sep>> \o Join(Tail(parts), sep)

\* ------------------------------------------------ SELinuxOptionsToFileLabel
\* the encoder without the ":::" special case
SELinuxOptionsToFileLabelNoCollapse(opts) ==
  IF opts = Nil THEN EmptyString
  ELSE Join(<<opts[1].User, opts[1].Role, opts[1].Type, opts[1].Level>>, Colon)

SELinuxOptionsToFileLabel(opts) ==
  IF opts = Nil THEN EmptyString
  ELSE LET parts == <<opts[1].User, opts[1].Role, opts[1].Type, opts[1].Level>>
           label == Join(parts, Colon)
       IN IF label = <<Colon, Colon, Colon>> THEN EmptyString ELSE label

\* ------------------------------------------------------------- Conflicts
\* no reordering at all
ReorderNoSwap(pA, pB) == [a |-> pA, b |-> pB]

\* "Reorder, so partsA is always longer than partsB"
Reorder(pA, pB) ==
  IF Len(pA) < Len(pB) THEN [a |-> pB, b |-> pA] ELSE [a |-> pA, b |-> pB]

\* padding that repeats the last part instead of appending ""
RECURSIVE PadPartsWithLast(_, _)
PadPartsWithLast(pB, n) ==
  IF Len(pB) < n THEN PadPartsWithLast(Append(pB, pB[Len(pB)]), n) ELSE pB

\* for len(partsB) < len(partsA) { partsB = append(partsB, "") }
RECURSIVE PadParts(_, _)
PadParts(pB, n) ==
  IF Len(pB) < n THEN PadParts(Append(pB, EmptyString), n) ELSE pB

Returned(b) == [panic |-> FALSE, ret |-> b]
IndexOutOfRange == [panic |-> TRUE, ret |-> FALSE]

\* the comparison loop without any "incomparable" branch
RECURSIVE ComparePartsPlain(_, _, _)
ComparePartsPlain(pA, pB, i) ==
  IF i > Len(pA) THEN Returned(FALSE)
  ELSE IF i > Len(pB) THEN IndexOutOfRange
  ELSE IF pA[i] = pB[i] THEN ComparePartsPlain(pA, pB, i + 1)
  ELSE Returned(TRUE)

\* the comparison loop without the partsB[i] == "" branch
RECURSIVE ComparePartsOneSided(_, _, _)
ComparePartsOneSided(pA, pB, i) ==
  IF i > Len(pA) THEN Returned(FALSE)
  ELSE IF i > Len(pB) THEN IndexOutOfRange
  ELSE IF pA[i] = pB[i] THEN ComparePartsOneSided(pA, pB, i + 1)
  ELSE IF pA[i] = EmptyString THEN ComparePartsOneSided(pA, pB, i + 1)
  ELSE Returned(TRUE)

\* the comparison loop without the partsA[i] == partsB[i] branch
RECURSIVE ComparePartsNoEqual(_, _, _)
ComparePartsNoEqual(pA, pB, i) ==
  IF i > Len(pA) THEN Returned(FALSE)
  ELSE IF i > Len(pB) THEN IndexOutOfRange
  ELSE IF pA[i] = EmptyString THEN ComparePartsNoEqual(pA, pB, i + 1)
  ELSE IF pB[i] = EmptyString THEN ComparePartsNoEqual(pA, pB, i + 1)
  ELSE Returned(TRUE)

\* for i := range partsA { ... }, from index i on (1-based); indexing partsB
\* past its end is a run-time panic
RECURSIVE CompareParts(_, _, _)
CompareParts(pA, pB, i) ==
  IF i > Len(pA) THEN Returned(FALSE)
  ELSE IF i > Len(pB) THEN IndexOutOfRange
  ELSE IF pA[i] = pB[i] THEN CompareParts(pA, pB, i + 1)
  ELSE IF pA[i] = EmptyString THEN CompareParts(pA, pB, i + 1)
  ELSE IF pB[i] = EmptyString THEN CompareParts(pA, pB, i + 1)
  ELSE Returned(TRUE)

\* The whole of Conflicts(labelA, labelB): the part lists as they stand when
\* the comparison loop starts, and the outcome of the loop
Conflicts(lA, lB) ==
  LET split   == [a |-> SplitN(lA, Colon, 4), b |-> SplitN(lB, Colon, 4)]
      ordered == Reorder(split.a, split.b)
      padded  == PadParts(ordered.b, Len(ordered.a))
      out     == CompareParts(ordered.a, padded, 1)
  IN [partsA |-> ordered.a, partsB |-> padded, panic |-> out.panic, ret |-> out.ret]

\* ------------------------------------------------------------ input sets
FieldValues == StringsOver(Letters, MaxFieldLen)
LevelValues == StringsOver(Chars, MaxLevelLen)
AnyValues == StringsOver(Chars, MaxFieldLen)

\* records whose User, Role and Type hold no ':'
Options == [User : FieldValues, Role : FieldValues, Type : FieldValues, Level : LevelValues]
\* records of four arbitrary strings
AnyOptions == [User : AnyValues, Role : AnyValues, Type : AnyValues, Level : AnyValues]

Pointers(S) == {Nil} \cup {<<r>> : r \in S}
Labels == StringsOver(Chars, MaxLen)

\* ------------------------------------------------------------ state machine
NoCall ==
  /\ partsA = << >> /\ partsB = << >>
  /\ conflict = FALSE /\ panicked = FALSE

\* two records are encoded, then the two labels are compared
Init ==
  /\ optsA \in Pointers(Options) /\ optsB \in Pointers(Options)
  /\ labelA = EmptyString /\ labelB = EmptyString
  /\ NoCall
  /\ pc = "encode"

\* one arbitrary record is encoded and compared with the label of nil
InitEncode ==
  /\ optsA \in Pointers(AnyOptions) /\ optsB = Nil
  /\ labelA = EmptyString /\ labelB = EmptyString
  /\ NoCall
  /\ pc = "encode"

\* Conflicts is called on two arbitrary strings
InitLabels ==
  /\ optsA = Nil /\ optsB = Nil
  /\ labelA \in Labels /\ labelB \in Labels
  /\ NoCall
  /\ pc = "conflicts"

Encode ==
  /\ pc = "encode"
  /\ labelA' = SELinuxOptionsToFileLabel(optsA)
  /\ labelB' = SELinuxOptionsToFileLabel(optsB)
  /\ pc' = "conflicts"
  /\ UNCHANGED <<optsA, optsB, partsA, partsB, conflict, panicked>>

CallConflicts ==
  /\ pc = "conflicts"
  /\ LET r == Conflicts(labelA, labelB)
     IN /\ partsA' = r.partsA
        /\ partsB' = r.partsB
        /\ conflict' = r.ret
        /\ panicked' = r.panic
  /\ pc' = "done"
  /\ UNCHANGED <<optsA, optsB, labelA, labelB>>

Next == Encode \/ CallConflicts
NextLabels == CallConflicts

Spec == Init /\ [][Next]_vars
SpecEncode == InitEncode /\ [][Next]_vars
SpecLabels == InitLabels /\ [][NextLabels]_vars

\* ===================================================== checked properties
Max(a, b) == IF a > b THEN a ELSE b

\* parts right-padded with "" to length n
PadTo(parts, n) == [k \in 1..n |-> IF k <= Len(parts) THEN parts[k] ELSE EmptyString]

\* some position holds two non-empty, different parts (after padding the
\* shorter list with "")
SomePositionConflicts(p, q) ==
  LET n == Max(Len(p), Len(q))
  IN \E k \in 1..n :
       /\ PadTo(p, n)[k] # EmptyString
       /\ PadTo(q, n)[k] # EmptyString
       /\ PadTo(p, n)[k] # PadTo(q, n)[k]

Split4(label) == SplitN(label, Colon, 4)

\* the four fields of a record; nil counts as four empty fields
FieldsOf(opts) ==
  IF opts = Nil THEN <<EmptyString, EmptyString, EmptyString, EmptyString>>
  ELSE <<opts[1].User, opts[1].Role, opts[1].Type, opts[1].Level>>

AllFieldsEmpty(opts) == \A k \in 1..4 : FieldsOf(opts)[k] = EmptyString
HasColon(s) == \E k \in 1..Len(s) : s[k] = Colon
ColonFree(opts) == \A k \in 1..3 : ~HasColon(FieldsOf(opts)[k])

\* ---- C1
\* C1: Conflicts(labelA, labelB) is true exactly when, after splitting each
\* label on ':' into at most 4 parts and right-padding the shorter list with
\* "", some position holds two non-empty, different parts; equal parts and
\* parts of which exactly one is empty never give a conflict, whatever the
\* position.
C1_ConflictIffSomePosition ==
  pc = "done" =>
    (conflict <=> SomePositionConflicts(Split4(labelA), Split4(labelB)))

C1_Witness ==
  /\ pc = "done" /\ conflict
  /\ Len(Split4(labelA)) < Len(Split4(labelB))
  /\ partsA[1] # EmptyString /\ partsB[1] = EmptyString
  /\ partsA[2] # EmptyString /\ partsB[2] # EmptyString /\ partsA[2] # partsB[2]

\* ---- C2
\* the values field k of a record may take
ValuesOfField(k) == IF k = 4 THEN LevelValues ELSE FieldValues

\* the non-empty values of field k that agree with opts: any of them when
\* opts leaves the field empty, the value of opts otherwise
Agreeing(k, opts) ==
  {v \in ValuesOfField(k) :
     /\ v # EmptyString
     /\ FieldsOf(opts)[k] # EmptyString => v = FieldsOf(opts)[k]}

\* the fully specified records that agree with rA on every non-empty field
\* of rA and with rB on every non-empty field of rB
Resolutions(rA, rB) ==
  [User  : Agreeing(1, rA) \cap Agreeing(1, rB),
   Role  : Agreeing(2, rA) \cap Agreeing(2, rB),
   Type  : Agreeing(3, rA) \cap Agreeing(3, rB),
   Level : Agreeing(4, rA) \cap Agreeing(4, rB)]

Resolvable(rA, rB) == \E f \in Resolutions(rA, rB) : TRUE

SomeFieldDiffers(rA, rB) ==
  \E k \in 1..4 :
    /\ FieldsOf(rA)[k] # EmptyString
    /\ FieldsOf(rB)[k] # EmptyString
    /\ FieldsOf(rA)[k] # FieldsOf(rB)[k]

\* C2: for two records (nil or four strings, no ':' in User, Role, Type) the
\* labels encoded from them conflict exactly when no fully specified record
\* agrees with both on their non-empty fields, which is exactly when some
\* field is non-empty in both records and differs.
C2_ConflictIffUnresolvable ==
  (pc = "done" /\ ColonFree(optsA) /\ ColonFree(optsB)) =>
    /\ conflict <=> ~Resolvable(optsA, optsB)
    /\ ~Resolvable(optsA, optsB) <=> SomeFieldDiffers(optsA, optsB)

C2_Witness ==
  /\ pc = "done" /\ conflict
  /\ optsA # Nil /\ optsB # Nil
  /\ optsA[1].User = optsB[1].User /\ optsA[1].User # EmptyString
  /\ optsA[1].Role = EmptyString /\ optsB[1].Role # EmptyString
  /\ HasColon(optsA[1].Level) /\ optsB[1].Level # EmptyString
  /\ optsA[1].Level # optsB[1].Level

\* ---- C3
\* C3: absence absorbs: the empty label conflicts with no encoded label, on
\* either side, the empty label included.
C3_AbsenceAbsorbs ==
  (pc = "done" /\ (labelA = EmptyString \/ labelB = EmptyString)) => ~conflict

C3_Witness ==
  /\ pc = "done"
  /\ optsA # Nil /\ labelA = EmptyString
  /\ \A k \in 1..4 : FieldsOf(optsB)[k] # EmptyString
  /\ Len(partsB) = 4 /\ ~conflict

\* ---- C4
\* C4: conflict symmetry: for encoded labels A and B, Conflicts(A, B) equals
\* Conflicts(B, A), also when the two labels split into different numbers of
\* parts.
C4_Symmetry ==
  pc = "done" =>
    /\ conflict = Conflicts(labelB, labelA).ret
    /\ panicked = Conflicts(labelB, labelA).panic

C4_Witness ==
  /\ pc = "done"
  /\ Len(Split4(labelA)) < Len(Split4(labelB))
  /\ \A k \in 1..4 : FieldsOf(optsB)[k] # EmptyString

\* ---- C5
\* C5: reflexivity: an encoded label never conflicts with itself.
C5_Reflexivity ==
  (pc = "done" /\ labelA = labelB) => ~conflict

C5_Witness ==
  /\ pc = "done" /\ labelA = labelB
  /\ \A k \in 1..4 : FieldsOf(optsA)[k] # EmptyString
  /\ HasColon(optsA[1].Level)

\* ---- C6
\* C6: SELinuxOptionsToFileLabel returns "" exactly for nil and for the record
\* of four empty fields; every other record encodes to
\* User + ":" + Role + ":" + Type + ":" + Level, empty fields kept.
C6_EmptyIffAbsent ==
  pc # "encode" =>
    /\ labelA = EmptyString <=> (optsA = Nil \/ AllFieldsEmpty(optsA))
    /\ ~(optsA = Nil \/ AllFieldsEmpty(optsA)) =>
         labelA = FieldsOf(optsA)[1] \o <<Colon>> \o FieldsOf(optsA)[2] \o <<Colon>>
                    \o FieldsOf(optsA)[3] \o <<Colon>> \o FieldsOf(optsA)[4]

C6_Witness ==
  /\ pc # "encode" /\ optsA # Nil
  /\ optsA[1].User = EmptyString /\ optsA[1].Role = EmptyString
  /\ optsA[1].Type # EmptyString /\ optsA[1].Level = EmptyString
  /\ Len(labelA) = Len(optsA[1].Type) + 3

\* ---- C7
\* C7: for a record with a non-empty field and no ':' in User, Role and Type,
\* splitting its label on ':' with a maximum of 4 parts gives exactly
\* [User, Role, Type, Level]; a Level that contains ':' stays whole as the
\* fourth part.  The part list Conflicts compares is that list.
C7_RoundTrip ==
  (pc # "encode" /\ optsA # Nil /\ ~AllFieldsEmpty(optsA) /\ ColonFree(optsA)) =>
    /\ Split4(labelA) = FieldsOf(optsA)
    /\ pc = "done" => partsA = FieldsOf(optsA)

C7_Witness ==
  /\ pc = "done" /\ optsA # Nil /\ ColonFree(optsA)
  /\ optsA[1].User # EmptyString
  /\ HasColon(optsA[1].Level) /\ Len(optsA[1].Level) > 1
  /\ partsA[4] = optsA[1].Level

\* ---- C8
NumFields(label) == Len(AllFields(label, Colon))

\* the first n fields, later ones dropped
FirstFields(label, n) ==
  LET f == AllFields(label, Colon)
  IN IF Len(f) > n THEN SubSeq(f, 1, n) ELSE f

\* the first n - 1 fields, then everything after them as one part
FieldsWithRemainder(label, n) ==
  LET f == AllFields(label, Colon)
  IN IF Len(f) > n
     THEN SubSeq(f, 1, n - 1) \o <<Join(SubSeq(f, n, Len(f)), Colon)>>
     ELSE f

\* C8 as stated: with more than 4 fields in an input, only the first 4 fields
\* of each label are compared and the later fields do not affect the result.
C8_OnlyFirstFourFields ==
  (pc = "done" /\ (NumFields(labelA) > 4 \/ NumFields(labelB) > 4)) =>
    (conflict <=> SomePositionConflicts(FirstFields(labelA, 4), FirstFields(labelB, 4)))

\* C8 as amended: with more than 4 fields in an input, the fourth part is the
\* whole remainder after the third ':' (later ':' and fields included) and
\* it is compared as one string.
C8_FourthPartIsRemainder ==
  (pc = "done" /\ (NumFields(labelA) > 4 \/ NumFields(labelB) > 4)) =>
    /\ Len(partsA) = 4
    /\ {partsA, partsB} =
         {PadTo(FieldsWithRemainder(labelA, 4), 4), PadTo(FieldsWithRemainder(labelB, 4), 4)}
    /\ conflict <=> SomePositionConflicts(FieldsWithRemainder(labelA, 4),
                                          FieldsWithRemainder(labelB, 4))

\* the two labels have the same first four fields and still conflict
C8_Witness ==
  /\ pc = "done" /\ conflict
  /\ NumFields(labelA) > 4
  /\ FirstFields(labelA, 4) = FirstFields(labelB, 4)

\* ---- C9
\* label followed by ':' until it holds exactly three of them
RECURSIVE ExtendToFourFields(_)
ExtendToFourFields(label) ==
  IF Count(label, Colon) < 3 THEN ExtendToFourFields(Append(label, Colon)) ELSE label

\* C9: a label with fewer than 4 parts gives the same result as the label with
\* its missing trailing fields made explicitly empty, on either side.
C9_MissingFieldsUnspecified ==
  pc = "done" =>
    /\ Count(labelA, Colon) <= 2 =>
         conflict = Conflicts(ExtendToFourFields(labelA), labelB).ret
    /\ Count(labelB, Colon) <= 2 =>
         conflict = Conflicts(labelA, ExtendToFourFields(labelB)).ret

C9_Witness ==
  /\ pc = "done" /\ conflict
  /\ Count(labelA, Colon) = 1 /\ Count(labelB, Colon) = 2
  /\ Split4(labelB)[3] # EmptyString

\* ---- C10
\* C10: Conflicts never panics: for any two strings the part lists have the
\* same length, between 1 and 4, when the comparison starts, no index is out
\* of range, and the call returns a boolean.
C10_NeverPanics ==
  pc = "done" =>
    /\ ~panicked
    /\ Len(partsA) = Len(partsB)
    /\ Len(partsA) \in 1..4
    /\ conflict \in BOOLEAN

C10_Witness ==
  /\ pc = "done" /\ ~panicked
  /\ labelA = EmptyString
  /\ Count(labelB, Colon) > 3
  /\ Len(partsB) = 4

====
